---- MODULE Spec2Model ----
(***************************************************************************)
(* Model of the LSL tools: the sample-rate drift analysis of the debug     *)
(* script (debug_md_lsl_stream.py: analyze_sample_rate_drift, the quality  *)
(* assessments, debug_lsl_stream and the callers run by the main flow),    *)
(* the scanner's continuous_monitor (lsl_stream_scanner.py) and the timing *)
(* loop of the mock generator (lslmimic.py).                               *)
(*                                                                         *)
(* Numbers.  A float is modelled by an exact extended rational <<n, d>>    *)
(* in lowest terms with d >= 0:  d > 0 is the real n/d,  <<1, 0>> is +inf, *)
(* <<-1, 0>> is -inf and <<0, 0>> is nan.  Arithmetic is exact (no         *)
(* rounding); inf and nan follow IEEE-754.  A quantity q that the code     *)
(* obtains through np.std (a square root) is held in signed-square form,   *)
(* sign(q) * q^2, which is again an extended rational and is a monotone    *)
(* bijection of q: the fields instantaneous_rates_std, intervals_std,      *)
(* intervals_cv and jitter_ms are held that way.                           *)
(***************************************************************************)
EXTENDS Integers, Sequences, FiniteSets, TLC

VARIABLES
    timestamps,         \* the caller's timestamp collection: [type, data]
    nominal_rate,       \* the nominal rate handed to the analyzer
    duration,           \* the elapsed wall-clock duration handed to it
    drift_stats,        \* outcome of the latest analyzer call, or NotCalled
    calls,              \* log of the calls made (specifications Spec, SpecCalls)
    rate_error_percent, \* the report field the quality assessments read
    quality,            \* print_stream_statistics' assessment, or "none"
    stability,          \* measure_sample_rate_drift's assessment, or "none"
    \* continuous_monitor (lsl_stream_scanner.py)
    monitoring,         \* "idle", "running", "expired" or "interrupted"
    previous_streams,   \* the names remembered from the last change
    current_streams,    \* the names of the descriptors of the latest scan, in order
    current_names,      \* the set of names of the latest scan
    new_streams,        \* current_names - previous_streams at the latest change
    gone_streams,       \* previous_streams - current_names at the latest change
    change_reported,    \* whether the latest scan printed "Stream changes detected!"
    scans,              \* number of scans made
    \* the timing loop of lslmimic.py; times are counted in sample periods
    streaming,          \* "idle", "running" or "interrupted"
    clock,              \* time.perf_counter()
    sample_count,       \* samples pushed so far
    start_time,
    next_chunk_time,
    current_time,       \* the clock reading of the latest iteration
    \* the main flow of debug_md_lsl_stream.py
    pc,                 \* position of the main flow
    stream_name,        \* the stream the script looks for
    success,            \* debug_lsl_stream's result, once it has returned
    stream_info,
    channel_names,
    uncaught,           \* the exception that ended the script, or None
    frame               \* the local variables of the caller being run

analyzerVars == <<timestamps, nominal_rate, duration, drift_stats, calls,
                  rate_error_percent, quality, stability>>

monitorVars == <<monitoring, previous_streams, current_streams, current_names,
                 new_streams, gone_streams, change_reported, scans>>

mimicVars == <<streaming, clock, sample_count, start_time, next_chunk_time,
               current_time>>

flowVars == <<pc, stream_name, success, stream_info, channel_names, uncaught, frame>>

vars == <<analyzerVars, monitorVars, mimicVars, flowVars>>

----------------------------------------------------------------------------
(* Bounds of the model *)

MaxLen == 4
MaxTime == 2
MaxRate == 2
MaxElapsed == 2
MaxCalls == 3
CallMaxLen == 2
CallMaxTime == 1
MaxFactor == 2
MaxProbe == 220
ProbeDen == 20
MaxStreams == 2
MaxScans == 3
MaxStart == 1
MaxClock == 30
MaxLag == 12
MaxPulls == 3
MaxIntervalPulls == 2

----------------------------------------------------------------------------
(* Extended rational arithmetic (IEEE-754 special values, exact otherwise) *)

RECURSIVE Gcd(_, _)
Gcd(a, b) == IF b = 0 THEN a ELSE Gcd(b, a % b)

AbsInt(n) == IF n < 0 THEN -n ELSE n
SignInt(n) == IF n > 0 THEN 1 ELSE IF n < 0 THEN -1 ELSE 0

Norm(n, d) ==
    IF d = 0 THEN <<SignInt(n), 0>>
    ELSE LET g == Gcd(AbsInt(n), AbsInt(d))
             s == IF d < 0 THEN -1 ELSE 1
         IN  <<s * (n \div g), s * (d \div g)>>

Rat(n, d) == Norm(n, d)
Zero == <<0, 1>>
One == <<1, 1>>
PosInf == <<1, 0>>
NegInf == <<-1, 0>>
NaN == <<0, 0>>

IsNaN(a) == a = NaN
IsFinite(a) == a[2] > 0
IsZero(a) == a = Zero

Neg(a) == <<-a[1], a[2]>>
Abs(a) == <<AbsInt(a[1]), a[2]>>

Add(a, b) ==
    IF IsNaN(a) \/ IsNaN(b) THEN NaN
    ELSE IF a[2] = 0 THEN (IF b[2] = 0 /\ b[1] # a[1] THEN NaN ELSE a)
    ELSE IF b[2] = 0 THEN b
    ELSE LET g == Gcd(a[2], b[2])
         IN  Norm(a[1] * (b[2] \div g) + b[1] * (a[2] \div g),
                  (a[2] \div g) * b[2])

Sub(a, b) == Add(a, Neg(b))

Mul(a, b) ==
    IF a[2] = 0 \/ b[2] = 0 THEN Norm(a[1] * b[1], 0)
    ELSE LET g1 == Gcd(AbsInt(a[1]), b[2])
             g2 == Gcd(AbsInt(b[1]), a[2])
         IN  Norm((a[1] \div g1) * (b[1] \div g2),
                  (a[2] \div g2) * (b[2] \div g1))

\* 1/a with numpy semantics: 1/0 = +inf, 1/inf = 0, 1/nan = nan
Inv(a) ==
    IF a[1] > 0 THEN <<a[2], a[1]>>
    ELSE IF a[1] < 0 THEN <<-a[2], -a[1]>>
    ELSE IF a[2] > 0 THEN PosInf
    ELSE NaN

\* a / b on numpy floats: x/0 = +-inf, 0/0 = nan (a RuntimeWarning, no error)
Div(a, b) == Mul(a, Inv(b))

Less(a, b) == Sub(b, a)[1] > 0
IsPos(a) == a[1] > 0
IsNeg(a) == a[1] < 0

\* sign(q) * q^2 of a float q
SSq(a) == Mul(a, Abs(a))

----------------------------------------------------------------------------
(* numpy reductions over a sequence of floats *)

\* the sum of s[lo..hi], halving the range as numpy's pairwise summation does
RECURSIVE SumRange(_, _, _)
SumRange(s, lo, hi) ==
    IF hi < lo THEN Zero
    ELSE IF lo = hi THEN s[lo]
    ELSE LET mid == (lo + hi) \div 2
         IN  Add(SumRange(s, lo, mid), SumRange(s, mid + 1, hi))

SumTo(s, k) == SumRange(s, 1, k)

np_mean(s) == Div(SumTo(s, Len(s)), Rat(Len(s), 1))

\* variant: the sample standard deviation (ddof = 1) in place of np.std
np_std_ddof1(s) ==
    LET m == np_mean(s)
        dev == [i \in 1..Len(s) |-> Mul(Sub(s[i], m), Sub(s[i], m))]
    IN  Div(SumTo(dev, Len(dev)), Rat(Len(s) - 1, 1))

\* np.std(s) = sqrt(mean(|s - mean(s)|^2)), held as its square
np_std(s) ==
    LET m == np_mean(s)
        dev == [i \in 1..Len(s) |-> Mul(Sub(s[i], m), Sub(s[i], m))]
    IN  np_mean(dev)

Smaller(a, b) == IF IsNaN(a) \/ IsNaN(b) THEN NaN ELSE IF Less(b, a) THEN b ELSE a
Larger(a, b) == IF IsNaN(a) \/ IsNaN(b) THEN NaN ELSE IF Less(a, b) THEN b ELSE a

RECURSIVE MinRange(_, _, _)
MinRange(s, lo, hi) ==
    IF lo = hi THEN s[lo]
    ELSE LET mid == (lo + hi) \div 2
         IN  Smaller(MinRange(s, lo, mid), MinRange(s, mid + 1, hi))

RECURSIVE MaxRange(_, _, _)
MaxRange(s, lo, hi) ==
    IF lo = hi THEN s[lo]
    ELSE LET mid == (lo + hi) \div 2
         IN  Larger(MaxRange(s, lo, mid), MaxRange(s, mid + 1, hi))

MinTo(s, k) == MinRange(s, 1, k)
MaxTo(s, k) == MaxRange(s, 1, k)

np_min(s) == MinTo(s, Len(s))
np_max(s) == MaxTo(s, Len(s))

\* np.diff(ts): ts[i+1] - ts[i], len(ts) - 1 elements
np_diff(ts) == [i \in 1..(Len(ts) - 1) |-> Sub(ts[i + 1], ts[i])]

----------------------------------------------------------------------------
(* analyze_sample_rate_drift *)

inter_sample_intervals(ts) == np_diff(ts)

instantaneous_rates(ts) ==
    LET iv == inter_sample_intervals(ts)
    IN  [i \in 1..Len(iv) |-> Div(One, iv[i])]

expected_duration(ts, rate) == Div(Rat(Len(ts), 1), rate)

actual_duration(ts) == Sub(ts[Len(ts)], ts[1])

\* variant: the drift measured as expected minus actual
total_drift_reversed(ts, rate) == Sub(expected_duration(ts, rate), actual_duration(ts))

total_drift(ts, rate) == Sub(actual_duration(ts), expected_duration(ts, rate))

\* variant: the drift scaled to ppm without dividing by the expected duration
drift_ppm_absolute(ts, rate) == Mul(total_drift(ts, rate), Rat(1000000, 1))

drift_ppm(ts, rate) ==
    Mul(Div(total_drift(ts, rate), expected_duration(ts, rate)), Rat(1000000, 1))

\* the statistics dictionary of lines 159-177
stats(ts, rate) ==
    [nominal_rate |-> rate,
     actual_mean_rate |-> Div(Rat(Len(ts), 1), actual_duration(ts)),
     rate_error_percent |->
        Mul(Div(Sub(Div(Rat(Len(ts), 1), actual_duration(ts)), rate), rate),
            Rat(100, 1)),
     total_drift_seconds |-> total_drift(ts, rate),
     drift_ppm |-> drift_ppm(ts, rate),
     drift_per_minute |->
        Mul(Div(total_drift(ts, rate), actual_duration(ts)), Rat(60, 1)),
     instantaneous_rates_mean |-> np_mean(instantaneous_rates(ts)),
     instantaneous_rates_std |-> np_std(instantaneous_rates(ts)),
     instantaneous_rates_min |-> np_min(instantaneous_rates(ts)),
     instantaneous_rates_max |-> np_max(instantaneous_rates(ts)),
     intervals_mean |-> np_mean(inter_sample_intervals(ts)),
     intervals_std |-> np_std(inter_sample_intervals(ts)),
     intervals_cv |->
        Mul(Div(np_std(inter_sample_intervals(ts)),
                SSq(np_mean(inter_sample_intervals(ts)))),
            Rat(10000, 1)),
     jitter_ms |-> Mul(np_std(inter_sample_intervals(ts)), Rat(1000000, 1)),
     n_samples |-> Len(ts),
     duration_actual |-> actual_duration(ts),
     duration_expected |-> expected_duration(ts, rate)]

Returned(v) == [kind |-> "returned", value |-> v]
Raised(e) == [kind |-> "raised", value |-> [exception |-> e]]

\* variant: drift_per_minute normalised by the caller's elapsed duration
analyze_with_elapsed(ts, rate, elapsed) ==
    IF Len(ts.data) < 2
    THEN Returned([error |-> "Insufficient timestamps for drift analysis"])
    ELSE IF IsZero(rate)
    THEN Raised("ZeroDivisionError")
    ELSE IF ts.type = "list" /\ IsZero(actual_duration(ts.data))
    THEN Raised("ZeroDivisionError")
    ELSE Returned([stats(ts.data, rate) EXCEPT
                      !.drift_per_minute =
                          Mul(Div(total_drift(ts.data, rate), elapsed), Rat(60, 1))])

\* A Python float divided by a Python float 0.0 raises ZeroDivisionError; a
\* numpy float64 divided by zero gives inf or nan.  nominal_rate is a Python
\* float (line 153); timestamps[-1] - timestamps[0] is a Python float when
\* the timestamps are a list and a numpy float64 when they are an ndarray
\* (lines 154, 161).
analyze_sample_rate_drift(ts, rate, elapsed) ==
    IF Len(ts.data) < 2
    THEN Returned([error |-> "Insufficient timestamps for drift analysis"])
    ELSE IF IsZero(rate)
    THEN Raised("ZeroDivisionError")
    ELSE IF ts.type = "list" /\ IsZero(actual_duration(ts.data))
    THEN Raised("ZeroDivisionError")
    ELSE Returned(stats(ts.data, rate))

----------------------------------------------------------------------------
(* State machine *)

NotCalled == [kind |-> "none", value |-> [none |-> TRUE]]

RECURSIVE SeqsUpTo(_, _)
SeqsUpTo(S, n) ==
    IF n = 0 THEN {<<>>}
    ELSE LET shorter == SeqsUpTo(S, n - 1)
         IN  shorter \cup {Append(s, x) : s \in {t \in shorter : Len(t) = n - 1}, x \in S}

Times(maxT) == {Rat(t, 1) : t \in 0..maxT}
Rates == {Rat(n, d) : n \in 0..MaxRate, d \in 1..MaxRate}
Elapsed == {Rat(e, 1) : e \in 1..MaxElapsed}
ContainerTypes == {"list", "ndarray"}

\* intervals alternating 0.0009 s and 0.0011 s, two of each
AlternatingExample ==
    <<Rat(0, 1), Rat(9, 10000), Rat(20, 10000), Rat(29, 10000), Rat(40, 10000)>>

Call(ts, rate, elapsed, after, out) ==
    [timestamps |-> ts, nominal_rate |-> rate, duration |-> elapsed,
     timestamps_after |-> after, out |-> out]

InitPolicyIdle ==
    /\ rate_error_percent = Zero
    /\ quality = "none"
    /\ stability = "none"

None == [none |-> TRUE]

\* continuous_monitor has not been started
MonitorIdle ==
    /\ monitoring = "idle"
    /\ previous_streams = {}
    /\ current_streams = <<>>
    /\ current_names = {}
    /\ new_streams = {}
    /\ gone_streams = {}
    /\ change_reported = FALSE
    /\ scans = 0

\* the mock generator is not running
MimicIdle ==
    /\ streaming = "idle"
    /\ clock = 0
    /\ sample_count = 0
    /\ start_time = 0
    /\ next_chunk_time = 0
    /\ current_time = 0

\* the debug script is not running
FlowIdle ==
    /\ pc = "idle"
    /\ stream_name = "none"
    /\ success = None
    /\ stream_info = None
    /\ channel_names = None
    /\ uncaught = None
    /\ frame = None

\* no analyzer call is being prepared
AnalyzerIdle ==
    /\ timestamps = [type |-> "list", data |-> <<>>]
    /\ nominal_rate = Zero
    /\ duration = Zero
    /\ drift_stats = NotCalled
    /\ calls = <<>>
    /\ InitPolicyIdle

Init ==
    /\ timestamps \in
         [type : ContainerTypes,
          data : SeqsUpTo(Times(MaxTime), MaxLen) \cup {AlternatingExample}]
    /\ nominal_rate \in Rates \cup {Rat(1000, 1)}
    /\ duration \in Elapsed
    /\ drift_stats = NotCalled
    /\ calls = <<>>
    /\ InitPolicyIdle
    /\ MonitorIdle /\ MimicIdle /\ FlowIdle

\* variant: the analyzer rebases the caller's timestamps in place
\* (timestamps -= timestamps[0]) before analysing them
AnalyzeCallInPlace ==
    /\ Len(calls) < MaxCalls
    /\ timestamps' = [type |-> timestamps.type,
                      data |-> [i \in 1..Len(timestamps.data) |->
                                   Sub(timestamps.data[i], timestamps.data[1])]]
    /\ drift_stats' = analyze_sample_rate_drift(timestamps', nominal_rate, duration)
    /\ calls' = Append(calls, Call(timestamps, nominal_rate, duration,
                                   timestamps', drift_stats'))
    /\ UNCHANGED <<nominal_rate, duration, rate_error_percent, quality, stability>>
    /\ UNCHANGED <<monitorVars, mimicVars, flowVars>>

\* drift_stats = analyze_sample_rate_drift(all_timestamps, nominal_rate, actual_duration)
AnalyzeCall ==
    /\ Len(calls) < MaxCalls
    /\ timestamps' = timestamps
    /\ drift_stats' = analyze_sample_rate_drift(timestamps, nominal_rate, duration)
    /\ calls' = Append(calls, Call(timestamps, nominal_rate, duration,
                                   timestamps', drift_stats'))
    /\ UNCHANGED <<nominal_rate, duration, rate_error_percent, quality, stability>>
    /\ UNCHANGED <<monitorVars, mimicVars, flowVars>>

\* one invocation of the analyzer on freshly collected inputs
FirstCall ==
    /\ calls = <<>>
    /\ AnalyzeCall

Next == FirstCall

Spec == Init /\ [][Next]_vars

----------------------------------------------------------------------------
(* A caller analysing several collections in turn (specification SpecCalls) *)

Factors == {Rat(k, 1) : k \in 2..MaxFactor} \cup {Rat(1, k) : k \in 2..MaxFactor}

Scale(ts, k) == [type |-> ts.type, data |-> [i \in 1..Len(ts.data) |-> Mul(ts.data[i], k)]]

InitCalls ==
    /\ timestamps \in
         [type : ContainerTypes, data : SeqsUpTo(Times(CallMaxTime), CallMaxLen)]
    /\ nominal_rate = One
    /\ duration = One
    /\ drift_stats = NotCalled
    /\ calls = <<>>
    /\ InitPolicyIdle
    /\ MonitorIdle /\ MimicIdle /\ FlowIdle

\* the current inputs are the ones the latest call analysed, and a further
\* call may follow
MayPrepare ==
    /\ calls # <<>>
    /\ Len(calls) < MaxCalls
    /\ calls[Len(calls)].timestamps = timestamps
    /\ calls[Len(calls)].nominal_rate = nominal_rate
    /\ calls[Len(calls)].duration = duration

\* the range of inputs the callers are given: rescaling never takes a
\* timestamp or the nominal rate out of it
TimesInRange(ts) ==
    \A i \in 1..Len(ts.data) :
        /\ ts.data[i][2] <= MaxFactor
        /\ AbsInt(ts.data[i][1]) <= CallMaxTime * MaxFactor
RateInRange(r) == r[1] <= MaxFactor * MaxFactor /\ r[2] <= MaxFactor * MaxFactor

\* the next collection: the same samples on a clock and a nominal rate both
\* k times as large
RescaleBoth ==
    /\ MayPrepare
    /\ \E k \in Factors :
          /\ timestamps' = Scale(timestamps, k)
          /\ nominal_rate' = Mul(nominal_rate, k)
          /\ TimesInRange(timestamps') /\ RateInRange(nominal_rate')
    /\ UNCHANGED <<duration, drift_stats, calls, rate_error_percent, quality, stability>>
    /\ UNCHANGED <<monitorVars, mimicVars, flowVars>>

\* the next collection: the same samples with the time unit changed, so the
\* timestamps are k times as large and the nominal rate k times as small
RescaleInverse ==
    /\ MayPrepare
    /\ \E k \in Factors :
          /\ timestamps' = Scale(timestamps, k)
          /\ nominal_rate' = Div(nominal_rate, k)
          /\ TimesInRange(timestamps') /\ RateInRange(nominal_rate')
    /\ UNCHANGED <<duration, drift_stats, calls, rate_error_percent, quality, stability>>
    /\ UNCHANGED <<monitorVars, mimicVars, flowVars>>

\* the next call reports another elapsed wall-clock duration
SetElapsed ==
    /\ MayPrepare
    /\ \E d \in Elapsed :
          /\ d # duration
          /\ duration' = d
    /\ UNCHANGED <<timestamps, nominal_rate, drift_stats, calls,
                   rate_error_percent, quality, stability>>
    /\ UNCHANGED <<monitorVars, mimicVars, flowVars>>

NextCalls == AnalyzeCall \/ RescaleBoth \/ RescaleInverse \/ SetElapsed

SpecCalls == InitCalls /\ [][NextCalls]_vars

----------------------------------------------------------------------------
(* Quality assessment of a report (specification SpecPolicy) *)

\* variant: the first threshold inclusive (<= 1.0)
quality_of_inclusive(err) ==
    IF ~Less(Rat(1, 1), Abs(err)) /\ ~IsNaN(err) THEN "Excellent"
    ELSE IF Less(Abs(err), Rat(5, 1)) THEN "Good"
    ELSE "Poor"

\* lines 253-258 of print_stream_statistics
quality_of(err) ==
    IF Less(Abs(err), Rat(1, 1)) THEN "Excellent"
    ELSE IF Less(Abs(err), Rat(5, 1)) THEN "Good"
    ELSE "Poor"

\* variant: abs() forgotten in the first comparison
stability_of_signed(err) ==
    IF Less(err, Rat(1, 10)) THEN "Excellent (laboratory grade)"
    ELSE IF Less(Abs(err), Rat(1, 1)) THEN "Good (research grade)"
    ELSE IF Less(Abs(err), Rat(5, 1)) THEN "Fair (consumer grade)"
    ELSE "Poor (unstable)"

\* lines 359-366 of measure_sample_rate_drift
stability_of(err) ==
    IF Less(Abs(err), Rat(1, 10)) THEN "Excellent (laboratory grade)"
    ELSE IF Less(Abs(err), Rat(1, 1)) THEN "Good (research grade)"
    ELSE IF Less(Abs(err), Rat(5, 1)) THEN "Fair (consumer grade)"
    ELSE "Poor (unstable)"

\* rate errors a report can carry: a grid of finite values, and +inf (an
\* ndarray whose first and last timestamps coincide)
Probes == {Rat(n, ProbeDen) : n \in (-MaxProbe)..MaxProbe} \cup {PosInf}

InitPolicy ==
    /\ timestamps = [type |-> "list", data |-> <<>>]
    /\ nominal_rate = One
    /\ duration = One
    /\ drift_stats = NotCalled
    /\ calls = <<>>
    /\ rate_error_percent \in Probes
    /\ quality = "none"
    /\ stability = "none"
    /\ MonitorIdle /\ MimicIdle /\ FlowIdle

AssessQuality ==
    /\ quality = "none"
    /\ quality' = quality_of(rate_error_percent)
    /\ UNCHANGED <<timestamps, nominal_rate, duration, drift_stats, calls,
                   rate_error_percent, stability>>
    /\ UNCHANGED <<monitorVars, mimicVars, flowVars>>

AssessStability ==
    /\ stability = "none"
    /\ stability' = stability_of(rate_error_percent)
    /\ UNCHANGED <<timestamps, nominal_rate, duration, drift_stats, calls,
                   rate_error_percent, quality>>
    /\ UNCHANGED <<monitorVars, mimicVars, flowVars>>

NextPolicy == AssessQuality \/ AssessStability

SpecPolicy == InitPolicy /\ [][NextPolicy]_vars

----------------------------------------------------------------------------
(* continuous_monitor of lsl_stream_scanner.py (specification SpecMonitor) *)

\* names of the streams the repository's scripts create or look for
StreamNames == {"SynAmps_RT_EEG", "SynAmps_RT_Markers", "SynAmpsRT"}

\* resolve_streams(): the descriptors found, here by name, in discovery order
Discovered == SeqsUpTo(StreamNames, MaxStreams)

\* {s.name() for s in current_streams}
NamesOf(streams) == {streams[i] : i \in 1..Len(streams)}

InitMonitor ==
    /\ monitoring = "running"
    /\ previous_streams = {}
    /\ current_streams = <<>>
    /\ current_names = {}
    /\ new_streams = {}
    /\ gone_streams = {}
    /\ change_reported = FALSE
    /\ scans = 0
    /\ AnalyzerIdle /\ MimicIdle /\ FlowIdle

\* variant: a scan is compared with the previous one by the number of names
ScanIterationByCount(streams) ==
    /\ monitoring = "running"
    /\ scans < MaxScans
    /\ current_streams' = streams
    /\ current_names' = NamesOf(streams)
    /\ IF Cardinality(current_names') # Cardinality(previous_streams)
       THEN /\ change_reported' = TRUE
            /\ new_streams' = current_names' \ previous_streams
            /\ gone_streams' = previous_streams \ current_names'
            /\ previous_streams' = current_names'
       ELSE /\ change_reported' = FALSE
            /\ UNCHANGED <<new_streams, gone_streams, previous_streams>>
    /\ scans' = scans + 1
    /\ UNCHANGED <<monitoring, analyzerVars, mimicVars, flowVars>>

\* one iteration of the while loop (lines 213-230) with the scan's result
ScanIteration(streams) ==
    /\ monitoring = "running"
    /\ scans < MaxScans
    /\ current_streams' = streams
    /\ current_names' = NamesOf(streams)
    /\ IF current_names' # previous_streams
       THEN /\ change_reported' = TRUE
            /\ new_streams' = current_names' \ previous_streams
            /\ gone_streams' = previous_streams \ current_names'
            /\ previous_streams' = current_names'
       ELSE /\ change_reported' = FALSE
            /\ UNCHANGED <<new_streams, gone_streams, previous_streams>>
    /\ scans' = scans + 1
    /\ UNCHANGED <<monitoring, analyzerVars, mimicVars, flowVars>>

Scan == \E streams \in Discovered : ScanIteration(streams)

\* time.time() - start_time < duration no longer holds
MonitorExpires ==
    /\ monitoring = "running"
    /\ monitoring' = "expired"
    /\ UNCHANGED <<previous_streams, current_streams, current_names, new_streams,
                   gone_streams, change_reported, scans>>
    /\ UNCHANGED <<analyzerVars, mimicVars, flowVars>>

\* Ctrl+C during time.sleep(scan_interval)
MonitorInterrupted ==
    /\ monitoring = "running"
    /\ monitoring' = "interrupted"
    /\ UNCHANGED <<previous_streams, current_streams, current_names, new_streams,
                   gone_streams, change_reported, scans>>
    /\ UNCHANGED <<analyzerVars, mimicVars, flowVars>>

NextMonitor == Scan \/ MonitorExpires \/ MonitorInterrupted

SpecMonitor == InitMonitor /\ [][NextMonitor]_vars

----------------------------------------------------------------------------
(* The timing loop of lslmimic.py (specification SpecMimic)                *)
(* Times are whole numbers of sample periods, 1/sfreq s.                   *)

sfreq == 1000
chunk_size == 10

TicksPerSecond == sfreq

\* the 0.001 s buffer of line 85
SleepBuffer == TicksPerSecond \div 1000

Max(a, b) == IF a > b THEN a ELSE b

InitMimic ==
    /\ streaming = "running"
    /\ clock \in 0..MaxStart
    /\ sample_count = 0
    /\ start_time = clock
    /\ next_chunk_time = start_time
    /\ current_time = start_time
    /\ AnalyzerIdle /\ MonitorIdle /\ FlowIdle

\* an iteration that finds the deadline ahead: sleep, then continue
\* (lines 81-86); the sleep lasts at least as long as asked
LoopWait(lag) ==
    /\ streaming = "running"
    /\ clock < start_time + MaxClock
    /\ current_time' = clock
    /\ current_time' < next_chunk_time
    /\ clock' = clock + Max(0, next_chunk_time - current_time' - SleepBuffer) + lag
    /\ UNCHANGED <<streaming, sample_count, start_time, next_chunk_time>>
    /\ UNCHANGED <<analyzerVars, monitorVars, flowVars>>

\* variant: the next deadline is one chunk period after the current reading
LoopPushFromNow(lag) ==
    /\ streaming = "running"
    /\ clock < start_time + MaxClock
    /\ current_time' = clock
    /\ ~(current_time' < next_chunk_time)
    /\ sample_count' = sample_count + chunk_size
    /\ next_chunk_time' = current_time' + (chunk_size * TicksPerSecond) \div sfreq
    /\ clock' = clock + lag
    /\ UNCHANGED <<streaming, start_time>>
    /\ UNCHANGED <<analyzerVars, monitorVars, flowVars>>

\* an iteration that generates and pushes a chunk (lines 81-111)
LoopPush(lag) ==
    /\ streaming = "running"
    /\ clock < start_time + MaxClock
    /\ current_time' = clock
    /\ ~(current_time' < next_chunk_time)
    /\ sample_count' = sample_count + chunk_size
    /\ next_chunk_time' = start_time + (sample_count' * TicksPerSecond) \div sfreq
    /\ clock' = clock + lag
    /\ UNCHANGED <<streaming, start_time>>
    /\ UNCHANGED <<analyzerVars, monitorVars, flowVars>>

\* Ctrl+C (line 120)
MimicInterrupted ==
    /\ streaming = "running"
    /\ streaming' = "interrupted"
    /\ UNCHANGED <<clock, sample_count, start_time, next_chunk_time, current_time>>
    /\ UNCHANGED <<analyzerVars, monitorVars, flowVars>>

NextMimic ==
    \/ \E lag \in 0..MaxLag : LoopWait(lag)
    \/ \E lag \in 0..MaxLag : LoopPush(lag)
    \/ MimicInterrupted

SpecMimic == InitMimic /\ [][NextMimic]_vars

----------------------------------------------------------------------------
(* The collaborators of the debug script: discovery and inlets *)

Stream(name, srate, channels) ==
    [name |-> name, nominal_srate |-> srate, channel_count |-> channels]

\* the two streams of lslmimic2.py: the EEG stream and the irregular-rate
\* marker stream (nominal rate 0)
EEGStream == Stream("SynAmps_RT_EEG", Rat(sfreq, 1), 32)
MarkerStream == Stream("SynAmps_RT_Markers", Zero, 1)

\* resolve_streams(): the descriptors it returns, or an exception it raises
ResolveOutcomes ==
    {[raised |-> FALSE, streams |-> s] :
        s \in {<<>>, <<EEGStream>>, <<MarkerStream>>, <<EEGStream, MarkerStream>>}}
    \cup {[raised |-> TRUE, streams |-> <<>>]}

\* StreamInlet(stream) and inlet.info(): a connection, or an exception
InletOutcomes == {"connected", "raises"}

\* inlet.pull_sample(timeout=5.0): a sample, (None, None) on timeout, or an
\* exception (the stream was lost)
SampleOutcomes == {"sample", "timeout", "raises"}

\* inlet.pull_chunk(...) in debug_lsl_stream: a chunk, an empty chunk, or an
\* exception
ChunkOutcomes == {"chunk", "empty", "raises"}

\* [s for s in streams if s.name() == stream_name]
target_streams(streams, name) == SelectSeq(streams, LAMBDA s : s.name = name)

\* the channel labels of the stream description, <<>> when it has none
LabelSets == {<<>>, <<"Fp1", "Fp2">>}

\* lines 98-112: the labels, or Channel_<i> for every channel
ch_names(info, labels) ==
    IF labels # <<>> THEN [names |-> [i \in 1..Len(labels) |-> [label |-> labels[i]]]]
    ELSE [names |-> [i \in 1..info.channel_count |-> [channel |-> i - 1]]]

\* the time stamp of the k-th sample an inlet delivers
stamp(k) == Div(Rat(k, 1), Rat(sfreq, 1))

\* a chunk of n samples starting with the inlet's sample number first
chunk_samples(first, n) == [i \in 1..n |-> first + i - 1]
chunk_timestamps(first, n) == [i \in 1..n |-> stamp(first + i - 1)]

\* the sizes of the chunks a pull delivers (0: the pull timed out), around
\* the number of timestamps min the caller asks for
ChunkSizes(min) == {0, 1, min - 1}

\* chunk_end - chunk_start of a pull with timeout 0.1 s
PullTimes == {Rat(1, 100), Rat(1, 10)}

MinStatisticsTimestamps == 100
MinPerformanceTimestamps == 10
MinMeasureTimestamps == 100

test_intervals == <<Rat(1, 100), Rat(5, 100), Rat(1, 10), Rat(1, 2)>>

\* drift_stats = {} (line 295)
EmptyDict == [kind |-> "empty", value |-> None]

Uncaught(function, exception) == [function |-> function, exception |-> exception]

----------------------------------------------------------------------------
(* debug_lsl_stream and the main flow (specification SpecMain) *)

DebugResult(ok, info, names) ==
    [success |-> ok, stream_info |-> info, channel_names |-> names]

\* the outcome of debug_lsl_stream for given outcomes of its collaborators:
\* what it returns, or the exception that leaves it
debug_lsl_stream(name, resolved, inlet, labels, sample, chunk) ==
    IF resolved.raised
    THEN Raised("RuntimeError")
    ELSE IF target_streams(resolved.streams, name) = <<>>
    THEN Returned(DebugResult(FALSE, None, None))
    ELSE IF inlet = "raises" \/ sample = "raises"
    THEN Returned(DebugResult(FALSE, None, None))
    ELSE IF sample = "timeout"
    THEN Returned(DebugResult(FALSE, None, None))
    ELSE IF chunk = "raises"
    THEN Returned(DebugResult(FALSE, None, None))
    ELSE LET info == target_streams(resolved.streams, name)[1]
         IN  Returned(DebugResult(TRUE, info, ch_names(info, labels)))

InitMain ==
    /\ pc = "start"
    /\ stream_name \in {"SynAmps_RT_EEG", "SynAmps_RT_Markers"}
    /\ success = None
    /\ stream_info = None
    /\ channel_names = None
    /\ uncaught = None
    /\ frame = None
    /\ AnalyzerIdle /\ MonitorIdle /\ MimicIdle

\* success, stream_info, channel_names = debug_lsl_stream(stream_name); if success: ...
DebugStream(resolved, inlet, labels, sample, chunk) ==
    /\ pc = "start"
    /\ frame' = [function |-> "debug_lsl_stream", streams |-> resolved,
                 inlet |-> inlet, sample |-> sample, samples |-> chunk]
    /\ LET out == debug_lsl_stream(stream_name, resolved, inlet, labels, sample, chunk)
       IN  IF out.kind = "raised"
           THEN /\ pc' = "crashed"
                /\ uncaught' = Uncaught("debug_lsl_stream", out.value.exception)
                /\ UNCHANGED <<success, stream_info, channel_names>>
           ELSE /\ success' = out.value.success
                /\ stream_info' = out.value.stream_info
                /\ channel_names' = out.value.channel_names
                /\ pc' = IF out.value.success THEN "statistics" ELSE "failed"
                /\ UNCHANGED uncaught
    /\ UNCHANGED <<stream_name, analyzerVars, monitorVars, mimicVars>>

Debug ==
    \E resolved \in ResolveOutcomes, inlet \in InletOutcomes, labels \in LabelSets,
       sample \in SampleOutcomes, chunk \in ChunkOutcomes :
        DebugStream(resolved, inlet, labels, sample, chunk)

\* the analyzer's variables as a caller finds them on entry
FreshAnalysis(rate) ==
    /\ nominal_rate' = rate
    /\ timestamps' = [type |-> "list", data |-> <<>>]
    /\ duration' = Zero
    /\ drift_stats' = NotCalled
    /\ rate_error_percent' = Zero
    /\ quality' = "none"
    /\ stability' = "none"
    /\ UNCHANGED calls

\* the first lines of each caller: find the stream, open an inlet, read the
\* nominal rate (lines 185-198, 267-285, 320-333)
Enter(function, at, loop, after, locals, resolved, inlet) ==
    /\ pc = at
    /\ IF resolved.raised
       THEN /\ pc' = "crashed"
            /\ uncaught' = Uncaught(function, "RuntimeError")
            /\ frame' = None
            /\ UNCHANGED analyzerVars
       ELSE IF target_streams(resolved.streams, stream_name) = <<>>
       THEN /\ pc' = after
            /\ frame' = None
            /\ UNCHANGED <<uncaught, analyzerVars>>
       ELSE IF inlet = "raises"
       THEN /\ pc' = "crashed"
            /\ uncaught' = Uncaught(function, "RuntimeError")
            /\ frame' = None
            /\ UNCHANGED analyzerVars
       ELSE /\ pc' = loop
            /\ frame' = locals
            /\ FreshAnalysis(target_streams(resolved.streams, stream_name)[1].nominal_srate)
            /\ UNCHANGED uncaught
    /\ UNCHANGED <<stream_name, success, stream_info, channel_names>>
    /\ UNCHANGED <<monitorVars, mimicVars>>

\* a caller left by an exception of the analyzer or of the inlet
Crashes(function, exception) ==
    /\ pc' = "crashed"
    /\ uncaught' = Uncaught(function, exception)

----------------------------------------------------------------------------
(* print_stream_statistics (specifications SpecMain and SpecStatistics) *)

StatisticsLocals ==
    [function |-> "print_stream_statistics", next_sample |-> 1, pulls |-> 0,
     sample_count |-> 0, chunk_counts |-> <<>>, chunk_timings |-> <<>>,
     all_timestamps |-> <<>>, samples |-> <<>>, timestamps |-> <<>>]

StatisticsBegin ==
    \E resolved \in ResolveOutcomes, inlet \in InletOutcomes :
        Enter("print_stream_statistics", "statistics", "statistics_loop",
              "performance", StatisticsLocals, resolved, inlet)

\* variant: every pull is counted as a chunk, also one that timed out
StatisticsPullCountingAll(n, dt) ==
    /\ pc = "statistics_loop"
    /\ frame.pulls < MaxPulls
    /\ LET samples == chunk_samples(frame.next_sample, n)
           stamps == chunk_timestamps(frame.next_sample, n)
       IN  frame' = [frame EXCEPT
                        !.pulls = @ + 1,
                        !.next_sample = @ + n,
                        !.samples = samples,
                        !.timestamps = stamps,
                        !.chunk_counts = Append(@, Len(samples)),
                        !.sample_count = @ + Len(samples),
                        !.chunk_timings = Append(@, dt),
                        !.all_timestamps = @ \o stamps]
    /\ UNCHANGED <<pc, stream_name, success, stream_info, channel_names, uncaught>>
    /\ UNCHANGED <<analyzerVars, monitorVars, mimicVars>>

\* one iteration of the collection loop (lines 202-211) pulling n samples
\* in dt seconds
StatisticsPull(n, dt) ==
    /\ pc = "statistics_loop"
    /\ frame.pulls < MaxPulls
    /\ LET samples == chunk_samples(frame.next_sample, n)
           stamps == chunk_timestamps(frame.next_sample, n)
       IN  IF samples # <<>>
           THEN frame' = [frame EXCEPT
                             !.pulls = @ + 1,
                             !.next_sample = @ + n,
                             !.samples = samples,
                             !.timestamps = stamps,
                             !.chunk_counts = Append(@, Len(samples)),
                             !.sample_count = @ + Len(samples),
                             !.chunk_timings = Append(@, dt),
                             !.all_timestamps = @ \o stamps]
           ELSE frame' = [frame EXCEPT
                             !.pulls = @ + 1,
                             !.samples = samples,
                             !.timestamps = stamps]
    /\ UNCHANGED <<pc, stream_name, success, stream_info, channel_names, uncaught>>
    /\ UNCHANGED <<analyzerVars, monitorVars, mimicVars>>

\* pull_chunk raises (the stream was lost): nothing catches it
StatisticsPullFails ==
    /\ pc = "statistics_loop"
    /\ frame.pulls < MaxPulls
    /\ Crashes("print_stream_statistics", "LostError")
    /\ UNCHANGED <<frame, stream_name, success, stream_info, channel_names>>
    /\ UNCHANGED <<analyzerVars, monitorVars, mimicVars>>

\* the loop ends (time.time() >= end_time): lines 213-261
StatisticsFinish ==
    /\ pc = "statistics_loop"
    /\ duration' = Rat(10, 1)
    /\ timestamps' = [type |-> "list", data |-> frame.all_timestamps]
    /\ IF frame.chunk_counts # <<>> /\ Len(frame.all_timestamps) >= MinStatisticsTimestamps
       THEN /\ drift_stats' = analyze_sample_rate_drift(timestamps', nominal_rate, duration')
            /\ IF drift_stats'.kind = "raised"
               THEN /\ Crashes("print_stream_statistics", drift_stats'.value.exception)
                    /\ UNCHANGED <<rate_error_percent, quality>>
               ELSE IF "error" \notin DOMAIN drift_stats'.value
               THEN /\ rate_error_percent' = drift_stats'.value.rate_error_percent
                    /\ quality' = quality_of(rate_error_percent')
                    /\ pc' = "performance"
                    /\ UNCHANGED uncaught
               ELSE /\ pc' = "performance"
                    /\ UNCHANGED <<uncaught, rate_error_percent, quality>>
       ELSE /\ pc' = "performance"
            /\ UNCHANGED <<drift_stats, uncaught, rate_error_percent, quality>>
    /\ frame' = None
    /\ UNCHANGED <<nominal_rate, calls, stability>>
    /\ UNCHANGED <<stream_name, success, stream_info, channel_names>>
    /\ UNCHANGED <<monitorVars, mimicVars>>

Statistics ==
    \/ StatisticsBegin
    \/ \E n \in ChunkSizes(MinStatisticsTimestamps), dt \in PullTimes : StatisticsPull(n, dt)
    \/ StatisticsPullFails
    \/ StatisticsFinish

\* print_stream_statistics called on its own
InitStatistics ==
    /\ pc = "statistics"
    /\ stream_name \in {"SynAmps_RT_EEG", "SynAmps_RT_Markers"}
    /\ success = None
    /\ stream_info = None
    /\ channel_names = None
    /\ uncaught = None
    /\ frame = None
    /\ AnalyzerIdle /\ MonitorIdle /\ MimicIdle

NextStatistics == Statistics

SpecStatistics == InitStatistics /\ [][NextStatistics]_vars

----------------------------------------------------------------------------
(* test_stream_performance *)

IntervalLocals(interval, first, results) ==
    [function |-> "test_stream_performance", next_sample |-> first, pulls |-> 0,
     interval |-> interval, results |-> results,
     samples_received |-> 0, chunks_received |-> 0, timestamps |-> <<>>,
     samples |-> <<>>, chunk_timestamps |-> <<>>]

PerformanceBegin ==
    \E resolved \in ResolveOutcomes, inlet \in InletOutcomes :
        Enter("test_stream_performance", "performance", "performance_loop",
              "measure", IntervalLocals(1, 1, <<>>), resolved, inlet)

\* one iteration of the inner loop (lines 287-292) pulling n samples
PerformancePull(n) ==
    /\ pc = "performance_loop"
    /\ frame.pulls < MaxIntervalPulls
    /\ LET samples == chunk_samples(frame.next_sample, n)
           stamps == chunk_timestamps(frame.next_sample, n)
       IN  IF samples # <<>>
           THEN frame' = [frame EXCEPT
                             !.pulls = @ + 1,
                             !.next_sample = @ + n,
                             !.samples = samples,
                             !.chunk_timestamps = stamps,
                             !.samples_received = @ + Len(samples),
                             !.chunks_received = @ + 1,
                             !.timestamps = @ \o stamps]
           ELSE frame' = [frame EXCEPT
                             !.pulls = @ + 1,
                             !.samples = samples,
                             !.chunk_timestamps = stamps]
    /\ UNCHANGED <<pc, stream_name, success, stream_info, channel_names, uncaught>>
    /\ UNCHANGED <<analyzerVars, monitorVars, mimicVars>>

PerformancePullFails ==
    /\ pc = "performance_loop"
    /\ frame.pulls < MaxIntervalPulls
    /\ Crashes("test_stream_performance", "LostError")
    /\ UNCHANGED <<frame, stream_name, success, stream_info, channel_names>>
    /\ UNCHANGED <<analyzerVars, monitorVars, mimicVars>>

\* results[interval] = {...} (lines 297-302)
IntervalResult(interval, samples_received, chunks_received, elapsed, stats_of) ==
    [interval |-> interval,
     samples_per_sec |-> Div(Rat(samples_received, 1), elapsed),
     chunks_per_sec |-> Div(Rat(chunks_received, 1), elapsed),
     avg_chunk_size |-> IF chunks_received > 0
                        THEN Div(Rat(samples_received, 1), Rat(chunks_received, 1))
                        ELSE Zero,
     drift_stats |-> stats_of]

\* the inner loop of an interval ends: lines 294-303, then the next
\* interval, or the summary (lines 305-314) after the last one
PerformanceIntervalEnd ==
    /\ pc = "performance_loop"
    /\ duration' = Rat(3, 1)
    /\ timestamps' = [type |-> "list", data |-> frame.timestamps]
    /\ drift_stats' =
          IF Len(frame.timestamps) >= MinPerformanceTimestamps
          THEN analyze_sample_rate_drift(timestamps', nominal_rate, duration')
          ELSE EmptyDict
    /\ IF drift_stats'.kind = "raised"
       THEN /\ Crashes("test_stream_performance", drift_stats'.value.exception)
            /\ frame' = None
       ELSE LET results ==
                    Append(frame.results,
                           IntervalResult(test_intervals[frame.interval],
                                          frame.samples_received, frame.chunks_received,
                                          duration', drift_stats'))
            IN  /\ UNCHANGED uncaught
                /\ IF frame.interval < Len(test_intervals)
                   THEN /\ frame' = IntervalLocals(frame.interval + 1,
                                                   frame.next_sample, results)
                        /\ UNCHANGED pc
                   ELSE /\ frame' = None
                        /\ pc' = "measure"
    /\ UNCHANGED <<nominal_rate, calls, rate_error_percent, quality, stability>>
    /\ UNCHANGED <<stream_name, success, stream_info, channel_names>>
    /\ UNCHANGED <<monitorVars, mimicVars>>

Performance ==
    \/ PerformanceBegin
    \/ \E n \in ChunkSizes(MinPerformanceTimestamps) : PerformancePull(n)
    \/ PerformancePullFails
    \/ PerformanceIntervalEnd

----------------------------------------------------------------------------
(* measure_sample_rate_drift *)

MeasureLocals ==
    [function |-> "measure_sample_rate_drift", next_sample |-> 1, pulls |-> 0,
     all_timestamps |-> <<>>, samples |-> <<>>, timestamps |-> <<>>]

MeasureBegin ==
    \E resolved \in ResolveOutcomes, inlet \in InletOutcomes :
        Enter("measure_sample_rate_drift", "measure", "measure_loop",
              "done", MeasureLocals, resolved, inlet)

\* one iteration of the collection loop (lines 336-339) pulling n samples
MeasurePull(n) ==
    /\ pc = "measure_loop"
    /\ frame.pulls < MaxPulls
    /\ LET samples == chunk_samples(frame.next_sample, n)
           stamps == chunk_timestamps(frame.next_sample, n)
       IN  IF samples # <<>>
           THEN frame' = [frame EXCEPT
                             !.pulls = @ + 1,
                             !.next_sample = @ + n,
                             !.samples = samples,
                             !.timestamps = stamps,
                             !.all_timestamps = @ \o stamps]
           ELSE frame' = [frame EXCEPT
                             !.pulls = @ + 1,
                             !.samples = samples,
                             !.timestamps = stamps]
    /\ UNCHANGED <<pc, stream_name, success, stream_info, channel_names, uncaught>>
    /\ UNCHANGED <<analyzerVars, monitorVars, mimicVars>>

MeasurePullFails ==
    /\ pc = "measure_loop"
    /\ frame.pulls < MaxPulls
    /\ Crashes("measure_sample_rate_drift", "LostError")
    /\ UNCHANGED <<frame, stream_name, success, stream_info, channel_names>>
    /\ UNCHANGED <<analyzerVars, monitorVars, mimicVars>>

\* the loop ends: lines 341-370
MeasureFinish ==
    /\ pc = "measure_loop"
    /\ duration' = Rat(10, 1)
    /\ timestamps' = [type |-> "list", data |-> frame.all_timestamps]
    /\ IF Len(frame.all_timestamps) >= MinMeasureTimestamps
       THEN /\ drift_stats' = analyze_sample_rate_drift(timestamps', nominal_rate, duration')
            /\ IF drift_stats'.kind = "raised"
               THEN /\ Crashes("measure_sample_rate_drift", drift_stats'.value.exception)
                    /\ UNCHANGED <<rate_error_percent, stability>>
               ELSE IF "nominal_rate" \notin DOMAIN drift_stats'.value
               THEN /\ Crashes("measure_sample_rate_drift", "KeyError")
                    /\ UNCHANGED <<rate_error_percent, stability>>
               ELSE /\ rate_error_percent' = drift_stats'.value.rate_error_percent
                    /\ stability' = stability_of(rate_error_percent')
                    /\ pc' = "done"
                    /\ UNCHANGED uncaught
       ELSE /\ pc' = "done"
            /\ UNCHANGED <<drift_stats, uncaught, rate_error_percent, stability>>
    /\ frame' = None
    /\ UNCHANGED <<nominal_rate, calls, quality>>
    /\ UNCHANGED <<stream_name, success, stream_info, channel_names>>
    /\ UNCHANGED <<monitorVars, mimicVars>>

Measure ==
    \/ MeasureBegin
    \/ \E n \in ChunkSizes(MinMeasureTimestamps) : MeasurePull(n)
    \/ MeasurePullFails
    \/ MeasureFinish

NextMain == Debug \/ Statistics \/ Performance \/ Measure

SpecMain == InitMain /\ [][NextMain]_vars

----------------------------------------------------------------------------
(* Properties of a single analyzer call (specification Spec) *)

StatsFields ==
    {"nominal_rate", "actual_mean_rate", "rate_error_percent",
     "total_drift_seconds", "drift_ppm", "drift_per_minute",
     "instantaneous_rates_mean", "instantaneous_rates_std",
     "instantaneous_rates_min", "instantaneous_rates_max",
     "intervals_mean", "intervals_std", "intervals_cv", "jitter_ms",
     "n_samples", "duration_actual", "duration_expected"}

IsReport(out) == out.kind = "returned" /\ DOMAIN out.value = StatsFields
IsInsufficient(out) == out.kind = "returned" /\ DOMAIN out.value = {"error"}
IsRaised(out) == out.kind = "raised"

AllEqual(s) == \A i, j \in 1..Len(s) : s[i] = s[j]

\* ts[i] = first + (i - 1) * step for every i
EvenlySpaced(ts, step) ==
    \A i \in 1..Len(ts) : ts[i] = Add(ts[1], Mul(Rat(i - 1, 1), step))

\* C1: with 0 or 1 timestamps the analyzer reports insufficient data and no
\* statistics; with exactly 2 timestamps (and a positive nominal rate) it
\* succeeds, with one interval and one instantaneous rate.
C1_MinimumLength ==
    \A k \in 1..Len(calls) :
        LET c == calls[k]
            n == Len(c.timestamps.data)
        IN  /\ n < 2 => IsInsufficient(c.out)
            /\ (n = 2 /\ IsPos(c.nominal_rate)) =>
                  /\ IsReport(c.out)
                  /\ Len(inter_sample_intervals(c.timestamps.data)) = 1
                  /\ Len(instantaneous_rates(c.timestamps.data)) = 1

\* C2: for every timestamp sequence of length >= 2 and every strictly
\* positive nominal rate the analyzer returns a complete report and never
\* raises.
C2_NeverRaises ==
    \A k \in 1..Len(calls) :
        LET c == calls[k]
        IN  (Len(c.timestamps.data) >= 2 /\ IsPos(c.nominal_rate)) =>
                IsReport(c.out)

\* C3: timestamps i / r (i = 0..N-1, N >= 2) analysed against nominal rate r
\* with elapsed duration (N-1)/r give rate_error_percent = 0, drift_ppm = 0,
\* jitter_ms = 0 and intervals_cv = 0.
C3_PerfectRateRoundTrip ==
    \A k \in 1..Len(calls) :
        LET c == calls[k]
            ts == c.timestamps.data
            r == c.nominal_rate
        IN  ( /\ Len(ts) >= 2
              /\ IsPos(r)
              /\ ts[1] = Zero
              /\ EvenlySpaced(ts, Inv(r))
              /\ c.duration = Div(Rat(Len(ts) - 1, 1), r) ) =>
                /\ IsReport(c.out)
                /\ c.out.value.rate_error_percent = Zero
                /\ c.out.value.drift_ppm = Zero
                /\ c.out.value.jitter_ms = Zero
                /\ c.out.value.intervals_cv = Zero

\* C4: N evenly spaced timestamps at interval 1/a with a < nominal_rate give
\* actual_mean_rate = a, rate_error_percent = (a - nominal)/nominal * 100 and
\* total_drift_seconds > 0.
C4_KnownPositiveDrift ==
    \A k \in 1..Len(calls) :
        LET c == calls[k]
            ts == c.timestamps.data
            nom == c.nominal_rate
        IN  \A a \in Rates :
              ( /\ Len(ts) >= 2
                /\ IsPos(a)
                /\ Less(a, nom)
                /\ EvenlySpaced(ts, Inv(a)) ) =>
                  /\ IsReport(c.out)
                  /\ c.out.value.actual_mean_rate = a
                  /\ c.out.value.rate_error_percent =
                        Mul(Div(Sub(a, nom), nom), Rat(100, 1))
                  /\ IsPos(c.out.value.total_drift_seconds)

\* population variance by the textbook identity E[x^2] - E[x]^2
RefVariance(s) ==
    LET n == Rat(Len(s), 1)
        sq == [i \in 1..Len(s) |-> Mul(s[i], s[i])]
        m == Div(SumTo(s, Len(s)), n)
    IN  Sub(Div(SumTo(sq, Len(sq)), n), Mul(m, m))

RefMean(s) == Div(SumTo(s, Len(s)), Rat(Len(s), 1))

\* the claim's two formulas; std-derived values in signed-square form
C6_Formulas(c) ==
    LET iv == inter_sample_intervals(c.timestamps.data)
        v == c.out.value
    IN  /\ v.jitter_ms = Mul(RefVariance(iv), Rat(1000 * 1000, 1))
        /\ v.intervals_cv =
              Mul(Div(RefVariance(iv), Mul(RefMean(iv), Abs(RefMean(iv)))),
                  Rat(100 * 100, 1))

C6_Example(c) ==
    c.timestamps.data = AlternatingExample =>
        /\ IsPos(c.out.value.jitter_ms)
        /\ c.out.value.intervals_cv = Rat(10 * 10, 1)

----------------------------------------------------------------------------
(* Properties of a series of analyzer calls (specification SpecCalls) *)

CallPairs == {p \in (1..Len(calls)) \X (1..Len(calls)) : p[1] < p[2]}

SameMetrics(a, b) ==
    /\ a.out.kind = b.out.kind
    /\ IsReport(a.out) <=> IsReport(b.out)
    /\ IsReport(a.out) =>
          /\ a.out.value.rate_error_percent = b.out.value.rate_error_percent
          /\ a.out.value.drift_ppm = b.out.value.drift_ppm

\* call b analyses call a's timestamps multiplied by kt, against a's nominal
\* rate multiplied by kr
Rescaled(a, b, kt, kr) ==
    /\ Len(a.timestamps.data) >= 2
    /\ IsPos(a.nominal_rate)
    /\ b.timestamps = Scale(a.timestamps, kt)
    /\ b.nominal_rate = Mul(a.nominal_rate, kr)

\* C5 as stated: multiplying all timestamps and the nominal rate by the same
\* positive factor k leaves rate_error_percent and drift_ppm unchanged.
C5_ScaleInvarianceAsClaimed ==
    \A p \in CallPairs : \A k \in Factors :
        Rescaled(calls[p[1]], calls[p[2]], k, k) =>
            SameMetrics(calls[p[1]], calls[p[2]])

\* C5 (amended): multiplying all timestamps by a positive factor k and
\* dividing the nominal rate by k leaves the outcome unchanged: both calls
\* raise, or both return reports with the same rate_error_percent and
\* drift_ppm.
C5_ScaleInvariance ==
    \A p \in CallPairs : \A k \in Factors :
        Rescaled(calls[p[1]], calls[p[2]], k, Inv(k)) =>
            SameMetrics(calls[p[1]], calls[p[2]])

C5_Witness ==
    \E p \in CallPairs : \E k \in Factors :
        /\ Rescaled(calls[p[1]], calls[p[2]], k, Inv(k))
        /\ IsReport(calls[p[1]].out)
        /\ IsReport(calls[p[2]].out)
        /\ IsFinite(calls[p[2]].out.value.drift_ppm)
        /\ ~IsZero(calls[p[2]].out.value.drift_ppm)
        /\ calls[p[2]].out.value.total_drift_seconds
              # calls[p[1]].out.value.total_drift_seconds

SameInputs(a, b) ==
    /\ a.timestamps = b.timestamps
    /\ a.nominal_rate = b.nominal_rate
    /\ a.duration = b.duration

C10_ElapsedIgnored ==
    /\ \A k \in 1..Len(calls) :
          LET c == calls[k]
              ts == c.timestamps.data
          IN  IsReport(c.out) =>
                c.out.value.drift_per_minute =
                    Mul(Div(c.out.value.total_drift_seconds,
                            Sub(ts[Len(ts)], ts[1])), Rat(60, 1))
    /\ \A p \in CallPairs :
          ( /\ calls[p[1]].timestamps = calls[p[2]].timestamps
            /\ calls[p[1]].nominal_rate = calls[p[2]].nominal_rate ) =>
                calls[p[1]].out = calls[p[2]].out

C10_Witness ==
    \E p \in CallPairs :
        /\ calls[p[1]].timestamps = calls[p[2]].timestamps
        /\ calls[p[1]].nominal_rate = calls[p[2]].nominal_rate
        /\ calls[p[1]].duration # calls[p[2]].duration
        /\ IsReport(calls[p[2]].out)
        /\ IsFinite(calls[p[2]].out.value.drift_per_minute)
        /\ ~IsZero(calls[p[2]].out.value.drift_per_minute)
        /\ calls[p[2]].duration # actual_duration(calls[p[2]].timestamps.data)

----------------------------------------------------------------------------
(* Properties of the quality assessments (specification SpecPolicy) *)

\* |n/d| < a/b by cross-multiplication; false for inf and nan
AbsBelow(x, a, b) == x[2] > 0 /\ AbsInt(x[1]) * b < a * x[2]

RefStability(x) ==
    IF AbsBelow(x, 1, 10) THEN "Excellent (laboratory grade)"
    ELSE IF AbsBelow(x, 1, 1) THEN "Good (research grade)"
    ELSE IF AbsBelow(x, 5, 1) THEN "Fair (consumer grade)"
    ELSE "Poor (unstable)"

RefQuality(x) ==
    IF AbsBelow(x, 1, 1) THEN "Excellent"
    ELSE IF AbsBelow(x, 5, 1) THEN "Good"
    ELSE "Poor"

Assessed(x, band) == rate_error_percent \in {x, Neg(x)} => stability = band

\* C7: the long-measurement band depends only on abs(rate_error_percent),
\* with strict thresholds 0.1, 1.0 and 5.0: 0.05, 0.5, 2.0 and 10.0 are
\* Excellent, Good, Fair and Poor, a value on a threshold falls in the worse
\* band, and x and -x get the same band.
C7_FourBandPolicy ==
    stability # "none" =>
        /\ stability = RefStability(rate_error_percent)
        /\ Assessed(Rat(1, 20), "Excellent (laboratory grade)")
        /\ Assessed(Rat(1, 2), "Good (research grade)")
        /\ Assessed(Rat(2, 1), "Fair (consumer grade)")
        /\ Assessed(Rat(10, 1), "Poor (unstable)")
        /\ Assessed(Rat(1, 10), "Good (research grade)")
        /\ Assessed(Rat(1, 1), "Fair (consumer grade)")
        /\ Assessed(Rat(5, 1), "Poor (unstable)")

C7_Witness ==
    /\ rate_error_percent = Rat(-1, 10)
    /\ stability = "Good (research grade)"

\* C8: the short policy is Excellent below 1.0, Good below 5.0, else Poor,
\* on abs(rate_error_percent) with strict thresholds: 0.5 is Excellent, 2.0
\* and 1.0 are Good, 5.0 is Poor; what it rates Excellent the four-band policy
\* rates Excellent or Good, and each policy rates Poor exactly what the other
\* rates Poor.
C8_ShortPolicy ==
    /\ quality # "none" =>
          /\ quality = RefQuality(rate_error_percent)
          /\ rate_error_percent \in {Rat(1, 2), Rat(-1, 2)} => quality = "Excellent"
          /\ rate_error_percent \in {Rat(2, 1), Rat(-2, 1)} => quality = "Good"
          /\ rate_error_percent \in {Rat(1, 1), Rat(-1, 1)} => quality = "Good"
          /\ rate_error_percent \in {Rat(5, 1), Rat(-5, 1)} => quality = "Poor"
    /\ (quality # "none" /\ stability # "none") =>
          /\ quality = "Excellent" =>
                stability \in {"Excellent (laboratory grade)", "Good (research grade)"}
          /\ quality = "Poor" <=> stability = "Poor (unstable)"

C8_Witness ==
    /\ rate_error_percent = Rat(1, 1)
    /\ quality = "Good"
    /\ stability = "Fair (consumer grade)"

----------------------------------------------------------------------------
(* The report's fields (specification Spec) *)

SignOf(x) == IF IsPos(x) THEN 1 ELSE IF IsNeg(x) THEN -1 ELSE 0

\* the reference formulas, from the two inputs alone
RefReport(c) ==
    LET ts == c.timestamps.data
        n == Rat(Len(ts), 1)
        nominal == c.nominal_rate
        expected == Div(n, nominal)
        actual == Sub(ts[Len(ts)], ts[1])
        v == c.out.value
    IN  /\ v.duration_expected = expected
        /\ v.duration_actual = actual
        /\ v.total_drift_seconds = Sub(actual, expected)
        /\ v.drift_ppm = Mul(Div(Sub(actual, expected), expected), Rat(1000000, 1))
        /\ v.actual_mean_rate = Div(n, actual)
        /\ v.rate_error_percent =
              Mul(Div(Sub(Div(n, actual), nominal), nominal), Rat(100, 1))
        /\ v.n_samples = Len(ts)
        /\ v.nominal_rate = nominal

\* C13: for every timestamp sequence of length n >= 2 and nominal rate > 0
\* the report satisfies duration_expected = n/nominal, duration_actual =
\* last - first, total_drift_seconds = actual - expected, drift_ppm =
\* total_drift/expected * 1e6, actual_mean_rate = n/actual,
\* rate_error_percent = (actual_mean_rate - nominal)/nominal * 100,
\* n_samples = n and nominal_rate echoed.
C13_ReferenceFormulas ==
    \A k \in 1..Len(calls) :
        LET c == calls[k]
        IN  (Len(c.timestamps.data) >= 2 /\ IsPos(c.nominal_rate)) =>
                /\ IsReport(c.out)
                /\ RefReport(c)

\* C15: for length >= 2, last > first and nominal rate > 0 the report's
\* total_drift_seconds, drift_ppm and drift_per_minute have the same sign and
\* rate_error_percent the opposite sign: total_drift_seconds > 0 exactly
\* when the measured mean rate is below nominal, exactly when
\* rate_error_percent < 0; all four are zero together.
C15_SignConsistency ==
    \A k \in 1..Len(calls) :
        LET c == calls[k]
            ts == c.timestamps.data
        IN  ( /\ Len(ts) >= 2
              /\ Less(ts[1], ts[Len(ts)])
              /\ IsPos(c.nominal_rate) ) =>
                /\ IsReport(c.out)
                /\ LET v == c.out.value
                       d == v.total_drift_seconds
                   IN  /\ IsFinite(d) /\ IsFinite(v.drift_ppm)
                       /\ IsFinite(v.drift_per_minute) /\ IsFinite(v.rate_error_percent)
                       /\ SignOf(v.drift_ppm) = SignOf(d)
                       /\ SignOf(v.drift_per_minute) = SignOf(d)
                       /\ SignOf(v.rate_error_percent) = 0 - SignOf(d)
                       /\ IsPos(d) <=> Less(v.actual_mean_rate, v.nominal_rate)
                       /\ IsPos(d) <=> IsNeg(v.rate_error_percent)
                       /\ IsZero(d) <=> IsZero(v.rate_error_percent)

\* a stream that ran slower than nominal: positive drift, negative rate error
C15_Witness ==
    \E k \in 1..Len(calls) :
        /\ IsReport(calls[k].out)
        /\ Less(calls[k].timestamps.data[1],
                calls[k].timestamps.data[Len(calls[k].timestamps.data)])
        /\ IsPos(calls[k].out.value.total_drift_seconds)
        /\ IsPos(calls[k].out.value.drift_ppm)
        /\ IsNeg(calls[k].out.value.rate_error_percent)

----------------------------------------------------------------------------
(* Properties of continuous_monitor (specification SpecMonitor) *)

\* C16: a change is reported at a scan exactly when the scan's set of names
\* differs from the previous scan's (the empty set before the first scan);
\* the reported new names are current minus previous, the gone names previous
\* minus current, the two are disjoint, and after every scan the remembered
\* set equals the scan's set of names.
C16_ChangeDetection ==
    [][scans' = scans + 1 =>
          /\ scans = 0 => previous_streams = {}
          /\ current_names' = NamesOf(current_streams')
          /\ change_reported' <=> current_names' # previous_streams
          /\ change_reported' =>
                /\ new_streams' = current_names' \ previous_streams
                /\ gone_streams' = previous_streams \ current_names'
                /\ new_streams' \cap gone_streams' = {}
          /\ previous_streams' = current_names']_vars

\* a scan after the first at which one stream appeared and another went away
C16_Witness ==
    /\ scans >= 2
    /\ change_reported
    /\ new_streams # {}
    /\ gone_streams # {}
    /\ previous_streams = current_names

----------------------------------------------------------------------------
(* Properties of the mock generator's pacing (specification SpecMimic) *)

\* C17: a chunk is pushed only when the clock reading is >= next_chunk_time;
\* every push adds exactly chunk_size to sample_count and sets
\* next_chunk_time = start_time + sample_count / sfreq; sample_count is always
\* a multiple of chunk_size, and the samples pushed by clock time t never
\* exceed (t - start_time) * sfreq + chunk_size.
C17_Pacing ==
    /\ [][sample_count' # sample_count =>
             /\ current_time' >= next_chunk_time
             /\ sample_count' = sample_count + chunk_size
             /\ (next_chunk_time' - start_time) * sfreq =
                   sample_count' * TicksPerSecond]_vars
    /\ [](/\ sample_count % chunk_size = 0
          /\ sample_count * TicksPerSecond <=
                (clock - start_time) * sfreq + chunk_size * TicksPerSecond)

\* two chunks pushed, the second exactly at its deadline: the bound is met
\* with equality
C17_Witness ==
    /\ sample_count = 2 * chunk_size
    /\ (clock - start_time) * sfreq = chunk_size * TicksPerSecond

----------------------------------------------------------------------------
(* Properties of the debug script's callers (specifications SpecMain and   *)
(* SpecStatistics)                                                         *)

\* the analyzer was invoked by the caller that ran last
Invoked == drift_stats.kind \in {"returned", "raised"}

\* C11: in no execution of print_stream_statistics, test_stream_performance
\* or measure_sample_rate_drift is the analyzer invoked with a nominal rate
\* that is zero or negative.
C11_CallersGuardRate == Invoked => IsPos(nominal_rate)

\* C12: in every caller a collection of fewer than 100 timestamps never
\* produces a drift report (the analyzer is invoked, and its report used,
\* only after at least 100 timestamps have been accumulated).
C12_MinimumSamples == IsReport(drift_stats) => Len(timestamps.data) >= 100

\* C14: debug_lsl_stream returns (True, info, channel_names) only when the
\* target stream was found and a sample was pulled; in every other outcome it
\* returns (False, None, None) without propagating an exception; the callers
\* run only after a successful result.
C14_OrchestrationFailures ==
    /\ (pc # "start" /\ frame # None /\ frame.function = "debug_lsl_stream") =>
          LET found == /\ ~frame.streams.raised
                       /\ target_streams(frame.streams.streams, stream_name) # <<>>
              pulled == frame.inlet = "connected" /\ frame.sample = "sample"
          IN  /\ uncaught = None
              /\ success \in BOOLEAN
              /\ success =>
                    /\ found /\ pulled
                    /\ stream_info = target_streams(frame.streams.streams, stream_name)[1]
                    /\ channel_names # None
              /\ ~(found /\ pulled) =>
                    /\ ~success
                    /\ stream_info = None
                    /\ channel_names = None
    /\ pc \in {"statistics", "statistics_loop", "performance", "performance_loop",
               "measure", "measure_loop", "done"} => success = TRUE

RECURSIVE SumInts(_)
SumInts(s) == IF s = <<>> THEN 0 ELSE s[1] + SumInts(Tail(s))

\* C18: in the collection loop of print_stream_statistics sample_count is
\* the sum of chunk_counts, chunk_counts and chunk_timings have one entry per
\* non-empty chunk, all_timestamps is the concatenation of the chunks'
\* timestamps in arrival order (as many as sample_count), and an empty pull
\* leaves the four accumulators unchanged.
C18_CollectionAccounting ==
    /\ [](pc = "statistics_loop" =>
             /\ frame.sample_count = SumInts(frame.chunk_counts)
             /\ Len(frame.chunk_counts) = Len(frame.chunk_timings)
             /\ Len(frame.all_timestamps) = frame.sample_count
             /\ Len(frame.chunk_counts) <= frame.pulls)
    /\ [][(pc = "statistics_loop" /\ pc' = "statistics_loop") =>
             /\ frame'.all_timestamps = frame.all_timestamps \o frame'.timestamps
             /\ Len(frame'.timestamps) = Len(frame'.samples)
             /\ IF frame'.samples = <<>>
                THEN /\ frame'.sample_count = frame.sample_count
                     /\ frame'.chunk_counts = frame.chunk_counts
                     /\ frame'.chunk_timings = frame.chunk_timings
                     /\ frame'.all_timestamps = frame.all_timestamps
                ELSE /\ frame'.chunk_counts =
                           Append(frame.chunk_counts, Len(frame'.samples))
                     /\ Len(frame'.chunk_timings) = Len(frame.chunk_timings) + 1]_vars

\* two chunks collected around a pull that timed out, a hundred timestamps
C18_Witness ==
    /\ pc = "statistics_loop"
    /\ frame.pulls = 3
    /\ Len(frame.chunk_counts) = 2
    /\ frame.sample_count = 100
    /\ frame.all_timestamps = [k \in 1..100 |-> stamp(k)]

====
